---- MODULE Spec2Model ----
(***************************************************************************)
(* Model of the Kimi file-content cache (KimiCacheMan, kimi_cache_man.py). *)
(*                                                                         *)
(* The durable table file_cache is a set of rows; the cache lock is the    *)
(* non-reentrant threading.Lock of the instance; every public method is a  *)
(* "call" step (the statements before `with self.lock`) followed by a      *)
(* "locked" step (the body of the `with` block).  The clock, the files on  *)
(* disk and the ingestion collaborator are the environment.                *)
(*                                                                         *)
(* The bookkeeping columns create_time / update_time are written by the    *)
(* code but read by no operation; they are left out of the rows.           *)
(***************************************************************************)
EXTENDS Integers, Sequences, FiniteSets, TLC

VARIABLES now, files, table, lock, pc, loc, ev,
          sessions, snapshots, last_cleanup

vars == <<now, files, table, lock, pc, loc, ev,
          sessions, snapshots, last_cleanup>>

svars == <<sessions, snapshots, last_cleanup>>

----------------------------------------------------------------------------
(* Bounds and input domains *)

MaxTime == 2

Threads == {1, 2}
Callers == {1}

Paths == {"pa", "pb"}
Rewritten == {"pa"}
Contents == {<<1>>, <<1, 2>>}
Tags == {"u1", "u2"}
Seconds == {0, 1}

NULL == -1
None == "None"
NoFile == <<0>>
NoThread == 0

----------------------------------------------------------------------------
(* Python / SQL helpers *)

Truthy(x) == x # NULL /\ x # 0

FileExists_always(fs, p) == TRUE

FileExists(fs, p) == fs[p] # NoFile

CanOpen(fs, p) == fs[p] # NoFile

FileText(bytes) == IF bytes = <<1>> THEN "A" ELSE "AB"

ChunkSize == 4096

md5_update(h, byte) == h * 3 + byte

RECURSIVE md5_chunk(_, _)
md5_chunk(h, chunk) ==
    IF chunk = <<>> THEN h
    ELSE md5_chunk(md5_update(h, Head(chunk)), Tail(chunk))

read(bytes, pos) ==
    SubSeq(bytes, pos + 1,
           IF pos + ChunkSize < Len(bytes) THEN pos + ChunkSize ELSE Len(bytes))

RECURSIVE md5_stream(_, _, _)
md5_stream(h, bytes, pos) ==
    LET chunk == read(bytes, pos)
    IN  IF chunk = <<>> THEN h
        ELSE md5_stream(md5_chunk(h, chunk), bytes, pos + Len(chunk))

_calculate_file_hash(bytes) == md5_stream(0, bytes, 0)

Hashes == {_calculate_file_hash(c) : c \in Contents}

CacheMessage(r, c, e) == [role |-> r, content |-> c, expired_time |-> e]

is_expired_ge(msg, ct) ==
    IF msg.expired_time = NULL THEN FALSE ELSE ct >= msg.expired_time

is_expired(msg, ct) ==
    IF msg.expired_time = NULL THEN FALSE ELSE ct > msg.expired_time

RECURSIVE _serialize_messages(_)
_serialize_messages(messages) ==
    IF messages = <<>> THEN <<>>
    ELSE <<(<<Head(messages).role, Head(messages).content,
              Head(messages).expired_time>>)>>
         \o _serialize_messages(Tail(messages))

RECURSIVE _deserialize_messages(_, _)
_deserialize_messages(messages_json, ct) ==
    IF messages_json = <<>> THEN <<>>
    ELSE LET d == Head(messages_json)
             cache_msg == CacheMessage(d[1], d[2], d[3])
             rest == _deserialize_messages(Tail(messages_json), ct)
         IN  IF ~is_expired(cache_msg, ct) THEN <<cache_msg>> \o rest ELSE rest

----------------------------------------------------------------------------
(* The table file_cache *)

Row(h, p, mj, tag, exp, note) ==
    [file_hash |-> h, file_path |-> p, messages |-> mj, cache_tag |-> tag,
     cache_expired_time |-> exp, cache_message |-> note]

SelectByHash(tbl, h) == {r \in tbl : r.file_hash = h}

SelectByTag(tbl, tag) == {r \in tbl : r.cache_tag = tag}

insert_cache_append(tbl, row) == tbl \cup {row}

insert_cache(tbl, row) ==
    {r \in tbl : r.file_hash # row.file_hash} \cup {row}

DeleteByHash(tbl, h) == {r \in tbl : r.file_hash # h}

RowDict(r, ct) ==
    [file_hash |-> r.file_hash, file_path |-> r.file_path,
     messages |-> _deserialize_messages(r.messages, ct),
     cache_tag |-> r.cache_tag, cache_expired_time |-> r.cache_expired_time,
     cache_message |-> r.cache_message]

RecordExpired(exp, ct) == Truthy(exp) /\ ct > exp

----------------------------------------------------------------------------
(* Events: what the last step was -- the call a thread has just started, or *)
(* the outcome of the call that has just returned -- with the table as it  *)
(* was before the step.  Every other step clears the event.                *)

NoEv == [op |-> "none"]

Idle(t) == pc[t] = "idle"

Finish(t, e) ==
    /\ pc' = [pc EXCEPT ![t] = "idle"]
    /\ loc' = [loc EXCEPT ![t] = <<>>]
    /\ ev' = e
    /\ UNCHANGED svars

Goto(t, label, locals) ==
    /\ pc' = [pc EXCEPT ![t] = label]
    /\ loc' = [loc EXCEPT ![t] = locals]
    /\ ev' = [op |-> "call", t |-> t, pc |-> label]
    /\ UNCHANGED svars

----------------------------------------------------------------------------
(* The ingestion collaborator, kimi_upload_file.upload_files, called with no *)
(* cache_tag.  As written it returns one system message per file or raises; *)
(* the cache's own guard `if not messages` also covers a collaborator that  *)
(* returns nothing, so that answer is kept among the environment's answers. *)

Answers == {"ok", "empty", "raise"}

upload_files(fs, p, answer) ==
    IF answer = "raise" \/ ~CanOpen(fs, p)
    THEN [raised |-> TRUE, messages |-> <<>>]
    ELSE IF answer = "empty"
    THEN [raised |-> FALSE, messages |-> <<>>]
    ELSE [raised |-> FALSE,
          messages |-> <<CacheMessage("system", FileText(fs[p]), NULL)>>]

----------------------------------------------------------------------------
(* Arguments of set_cache *)

ExpiredTime(current_time, expire_seconds) ==
    IF Truthy(expire_seconds) THEN current_time + expire_seconds ELSE NULL

SetArgs ==
    { [messages |-> <<CacheMessage("user", "x", NULL)>>,
       cache_tag |-> "u1", expire_seconds |-> 1, cache_message |-> "n1"],
      [messages |-> <<CacheMessage("user", "y", 0),
                      CacheMessage("system", "z", NULL)>>,
       cache_tag |-> "u2", expire_seconds |-> 0, cache_message |-> None],
      [messages |-> <<>>,
       cache_tag |-> None, expire_seconds |-> NULL, cache_message |-> None] }

----------------------------------------------------------------------------
Init ==
    /\ now = 0
    /\ files \in [Paths -> Contents \cup {NoFile}]
    /\ \A p \in Paths \ Rewritten : files[p] = <<1>>
    /\ table = {}
    /\ lock = NoThread
    /\ pc = [t \in Threads |-> "idle"]
    /\ loc = [t \in Threads |-> <<>>]
    /\ ev = NoEv
    /\ sessions = <<>>
    /\ snapshots = <<>>
    /\ last_cleanup = 0

(* Environment: the clock advances; a file is written, replaced or deleted *)
Tick ==
    /\ now < MaxTime
    /\ now' = now + 1
    /\ ev' = NoEv
    /\ UNCHANGED <<files, table, lock, pc, loc, svars>>

WriteFile(p, c) ==
    /\ files[p] # c
    /\ files' = [files EXCEPT ![p] = c]
    /\ ev' = NoEv
    /\ UNCHANGED <<now, table, lock, pc, loc, svars>>

(* get_cache *)
get_cache_call(t, p) ==
    /\ Idle(t)
    /\ IF ~FileExists(files, p)
       THEN Finish(t, [op |-> "get", t |-> t, file_path |-> p, kind |-> "None",
                       calls |-> 0, dbread |-> FALSE, pre |-> table])
       ELSE IF ~CanOpen(files, p)
       THEN Finish(t, [op |-> "get", t |-> t, file_path |-> p, kind |-> "raise",
                       calls |-> 0, dbread |-> FALSE, pre |-> table])
       ELSE Goto(t, "get_lock",
                 [file_path |-> p, file_hash |-> _calculate_file_hash(files[p])])
    /\ UNCHANGED <<now, files, table, lock>>

get_cache_locked(t) ==
    /\ pc[t] = "get_lock"
    /\ lock = NoThread
    /\ LET rows == SelectByHash(table, loc[t].file_hash)
       IN  IF rows # {}
           THEN LET row == CHOOSE r \in rows : TRUE
                    current_time == now
                IN  /\ Finish(t, [op |-> "get", t |-> t,
                                  file_path |-> loc[t].file_path,
                                  file_hash |-> loc[t].file_hash,
                                  kind |-> "list",
                                  ret |-> _deserialize_messages(row.messages,
                                                                current_time),
                                  hit |-> TRUE, row |-> row,
                                  at |-> current_time,
                                  calls |-> 0, dbread |-> TRUE, pre |-> table])
                    /\ UNCHANGED lock
           ELSE /\ Goto(t, "get_upload", loc[t])
                /\ lock' = t
    /\ UNCHANGED <<now, files, table>>

get_cache_miss_nostore(tbl, row, messages) == tbl

get_cache_miss_always(tbl, row, messages) == insert_cache(tbl, row)

get_cache_miss(tbl, row, messages) ==
    IF messages = <<>> THEN tbl ELSE insert_cache(tbl, row)

get_cache_upload(t, answer) ==
    /\ pc[t] = "get_upload"
    /\ LET up == upload_files(files, loc[t].file_path, answer)
           msgs == up.messages
           row == Row(loc[t].file_hash, loc[t].file_path,
                      _serialize_messages(msgs), None, NULL, None)
           e == [op |-> "get", t |-> t, file_path |-> loc[t].file_path,
                 file_hash |-> loc[t].file_hash, hit |-> FALSE, up |-> up,
                 calls |-> 1, dbread |-> TRUE, pre |-> table]
       IN  IF up.raised
           THEN /\ Finish(t, e @@ [kind |-> "raise"])
                /\ UNCHANGED table
           ELSE /\ table' = get_cache_miss(table, row, msgs)
                /\ IF msgs = <<>>
                   THEN Finish(t, e @@ [kind |-> "str"])
                   ELSE Finish(t, e @@ [kind |-> "list", ret |-> msgs])
    /\ lock' = NoThread
    /\ UNCHANGED <<now, files>>

(* set_cache *)
set_cache_call(t, p, a) ==
    /\ Idle(t)
    /\ IF ~CanOpen(files, p)
       THEN Finish(t, [op |-> "set", t |-> t, file_path |-> p, kind |-> "raise",
                       pre |-> table])
       ELSE LET current_time == now
            IN  Goto(t, "set_lock",
                     [file_path |-> p,
                      file_hash |-> _calculate_file_hash(files[p]),
                      current_time |-> current_time,
                      expire_seconds |-> a.expire_seconds,
                      expired_time |-> ExpiredTime(current_time, a.expire_seconds),
                      messages |-> a.messages,
                      messages_json |-> _serialize_messages(a.messages),
                      cache_tag |-> a.cache_tag,
                      cache_message |-> a.cache_message])
    /\ UNCHANGED <<now, files, table, lock>>

set_cache_locked(t) ==
    /\ pc[t] = "set_lock"
    /\ lock = NoThread
    /\ table' = insert_cache(table,
                    Row(loc[t].file_hash, loc[t].file_path, loc[t].messages_json,
                        loc[t].cache_tag, loc[t].expired_time,
                        loc[t].cache_message))
    /\ Finish(t, [op |-> "set", t |-> t, file_path |-> loc[t].file_path,
                  file_hash |-> loc[t].file_hash, kind |-> "None",
                  messages |-> loc[t].messages, cache_tag |-> loc[t].cache_tag,
                  expire_seconds |-> loc[t].expire_seconds,
                  cache_message |-> loc[t].cache_message,
                  at |-> loc[t].current_time, pre |-> table])
    /\ UNCHANGED <<now, files, lock>>

(* remove_cache; also the call get_cache_info makes on an expired record *)
remove_cache_call(t, h) ==
    /\ Idle(t)
    /\ Goto(t, "remove_lock", [file_hash |-> h, caller |-> "top"])
    /\ UNCHANGED <<now, files, table, lock>>

remove_cache_locked(t) ==
    /\ pc[t] = "remove_lock"
    /\ lock = NoThread
    /\ table' = DeleteByHash(table, loc[t].file_hash)
    /\ IF loc[t].caller = "top"
       THEN Finish(t, [op |-> "remove", t |-> t, file_hash |-> loc[t].file_hash,
                       kind |-> "None", pre |-> table])
       ELSE Finish(t, [op |-> "getInfo", t |-> t,
                       file_path |-> loc[t].file_path,
                       file_hash |-> loc[t].file_hash, kind |-> "None",
                       found |-> TRUE, expired |-> TRUE, row |-> loc[t].row,
                       at |-> loc[t].current_time, pre |-> loc[t].pre])
    /\ UNCHANGED <<now, files, lock>>

(* refresh_cache *)
RefreshedRow_extend(r, current_time, extend_seconds) ==
    [r EXCEPT !.cache_expired_time =
        IF r.cache_expired_time = NULL THEN current_time + extend_seconds
        ELSE r.cache_expired_time + extend_seconds]

RefreshedRow(r, current_time, extend_seconds) ==
    LET new_expired_time == current_time + extend_seconds
    IN  [r EXCEPT !.cache_expired_time = new_expired_time]

refresh_cache_call(t, p, d) ==
    /\ Idle(t)
    /\ IF ~CanOpen(files, p)
       THEN Finish(t, [op |-> "refresh", t |-> t, file_path |-> p,
                       kind |-> "raise", pre |-> table])
       ELSE Goto(t, "refresh_lock",
                 [file_path |-> p, file_hash |-> _calculate_file_hash(files[p]),
                  current_time |-> now, extend_seconds |-> d])
    /\ UNCHANGED <<now, files, table, lock>>

refresh_cache_locked(t) ==
    /\ pc[t] = "refresh_lock"
    /\ lock = NoThread
    /\ LET rows == SelectByHash(table, loc[t].file_hash)
           e == [op |-> "refresh", t |-> t, file_path |-> loc[t].file_path,
                 file_hash |-> loc[t].file_hash, kind |-> "bool",
                 extend_seconds |-> loc[t].extend_seconds,
                 at |-> loc[t].current_time, pre |-> table]
       IN  IF rows = {}
           THEN /\ Finish(t, e @@ [ret |-> FALSE])
                /\ UNCHANGED table
           ELSE /\ table' = {IF r \in rows
                             THEN RefreshedRow(r, loc[t].current_time,
                                               loc[t].extend_seconds)
                             ELSE r : r \in table}
                /\ Finish(t, e @@ [ret |-> TRUE])
    /\ UNCHANGED <<now, files, lock>>

(* clear_expired_cache *)
clear_expired_cache_call(t) ==
    /\ Idle(t)
    /\ Goto(t, "clear_lock", [current_time |-> now])
    /\ UNCHANGED <<now, files, table, lock>>

clear_expired_cache_locked(t) ==
    /\ pc[t] = "clear_lock"
    /\ lock = NoThread
    /\ LET gone == {r \in table : /\ r.cache_expired_time # NULL
                                  /\ r.cache_expired_time < loc[t].current_time}
       IN  /\ table' = table \ gone
           /\ Finish(t, [op |-> "clearExpired", t |-> t, kind |-> "int",
                         ret |-> Cardinality(gone),
                         at |-> loc[t].current_time, pre |-> table])
    /\ UNCHANGED <<now, files, lock>>

(* get_cache_by_tag *)
get_cache_by_tag_call(t, tag) ==
    /\ Idle(t)
    /\ Goto(t, "tag_lock", [cache_tag |-> tag])
    /\ UNCHANGED <<now, files, table, lock>>

get_cache_by_tag_locked(t) ==
    /\ pc[t] = "tag_lock"
    /\ lock = NoThread
    /\ Finish(t, [op |-> "getByTag", t |-> t, cache_tag |-> loc[t].cache_tag,
                  kind |-> "rows",
                  ret |-> {RowDict(r, now) : r \in SelectByTag(table, loc[t].cache_tag)},
                  at |-> now, pre |-> table])
    /\ UNCHANGED <<now, files, table, lock>>

(* get_cache_info *)
get_cache_info_call(t, p) ==
    /\ Idle(t)
    /\ IF ~FileExists(files, p)
       THEN Finish(t, [op |-> "getInfo", t |-> t, file_path |-> p,
                       kind |-> "None", found |-> FALSE, pre |-> table])
       ELSE IF ~CanOpen(files, p)
       THEN Finish(t, [op |-> "getInfo", t |-> t, file_path |-> p,
                       kind |-> "raise", found |-> FALSE, pre |-> table])
       ELSE Goto(t, "info_lock",
                 [file_path |-> p, file_hash |-> _calculate_file_hash(files[p])])
    /\ UNCHANGED <<now, files, table, lock>>

get_cache_info_locked(t) ==
    /\ pc[t] = "info_lock"
    /\ lock = NoThread
    /\ LET rows == SelectByHash(table, loc[t].file_hash)
           e == [op |-> "getInfo", t |-> t, file_path |-> loc[t].file_path,
                 file_hash |-> loc[t].file_hash, pre |-> table]
       IN  IF rows = {}
           THEN /\ Finish(t, e @@ [kind |-> "None", found |-> FALSE])
                /\ UNCHANGED lock
           ELSE LET row == CHOOSE r \in rows : TRUE
                    current_time == now
                IN  IF RecordExpired(row.cache_expired_time, current_time)
                    THEN /\ Goto(t, "remove_lock",
                                 [file_hash |-> loc[t].file_hash,
                                  caller |-> "get_cache_info",
                                  file_path |-> loc[t].file_path,
                                  row |-> row, current_time |-> current_time,
                                  pre |-> table])
                         /\ lock' = t
                    ELSE /\ Finish(t, e @@ [kind |-> "dict", found |-> TRUE,
                                            expired |-> FALSE, row |-> row,
                                            at |-> current_time,
                                            ret |-> RowDict(row, current_time)])
                         /\ UNCHANGED lock
    /\ UNCHANGED <<now, files, table>>

----------------------------------------------------------------------------
Step(t) ==
    \/ \E p \in Paths : get_cache_call(t, p)
    \/ get_cache_locked(t)
    \/ \E answer \in Answers : get_cache_upload(t, answer)
    \/ \E p \in Paths, a \in SetArgs : set_cache_call(t, p, a)
    \/ set_cache_locked(t)
    \/ \E h \in Hashes : remove_cache_call(t, h)
    \/ remove_cache_locked(t)
    \/ \E p \in Paths, d \in Seconds : refresh_cache_call(t, p, d)
    \/ refresh_cache_locked(t)
    \/ clear_expired_cache_call(t)
    \/ clear_expired_cache_locked(t)
    \/ \E tag \in Tags : get_cache_by_tag_call(t, tag)
    \/ get_cache_by_tag_locked(t)
    \/ \E p \in Paths : get_cache_info_call(t, p)
    \/ get_cache_info_locked(t)

Environment ==
    \/ Tick
    \/ \E p \in Rewritten, c \in Contents \cup {NoFile} : WriteFile(p, c)

Next ==
    \/ \E t \in Callers : Step(t)
    \/ Environment

Spec == Init /\ [][Next]_vars

----------------------------------------------------------------------------
(* Two request threads on one file, under fair scheduling: a thread that is *)
(* inside a call keeps being scheduled, a lock that keeps becoming free is  *)
(* eventually acquired, and the collaborator always answers.                *)

FairPaths == {"pb"}
FairArgs == {a \in SetArgs : a.expire_seconds = 1}

FairInit ==
    /\ Init
    /\ \A p \in Paths : files[p] = <<1>>

FairCall(t) ==
    \/ \E p \in FairPaths : get_cache_call(t, p)
    \/ \E p \in FairPaths, a \in FairArgs : set_cache_call(t, p, a)
    \/ \E h \in {_calculate_file_hash(<<1>>)} : remove_cache_call(t, h)
    \/ \E p \in FairPaths, d \in {1} : refresh_cache_call(t, p, d)
    \/ clear_expired_cache_call(t)
    \/ \E tag \in {"u1"} : get_cache_by_tag_call(t, tag)
    \/ \E p \in FairPaths : get_cache_info_call(t, p)

Progress(t) ==
    \/ get_cache_locked(t)
    \/ \E answer \in Answers : get_cache_upload(t, answer)
    \/ set_cache_locked(t)
    \/ remove_cache_locked(t)
    \/ refresh_cache_locked(t)
    \/ clear_expired_cache_locked(t)
    \/ get_cache_by_tag_locked(t)
    \/ get_cache_info_locked(t)

FairNext ==
    \/ \E t \in Threads : FairCall(t) \/ Progress(t)
    \/ Tick

FairSpec ==
    FairInit /\ [][FairNext]_vars /\ \A t \in Threads : SF_vars(Progress(t))

----------------------------------------------------------------------------
(* Properties *)

StoredRow(e) == SelectByHash(e.pre, e.file_hash)

(* C1 -- expiry monotonicity: a read at time `at` of a record whose         *)
(* cache_expired_time is x returns its content when at < x and does not     *)
(* return it when at >= x; this for get, getInfo and getByTag.              *)
C1_ExpiryMonotonicity ==
    /\ (ev.op = "get" /\ ev.kind = "list" /\ ev.hit
            /\ ev.row.cache_expired_time # NULL)
       => ev.at < ev.row.cache_expired_time
    /\ (ev.op = "getInfo" /\ ev.kind = "dict"
            /\ ev.row.cache_expired_time # NULL)
       => ev.at < ev.row.cache_expired_time
    /\ (ev.op = "getInfo" /\ ev.kind = "None" /\ ev.found)
       => ev.row.cache_expired_time # NULL /\ ev.at >= ev.row.cache_expired_time
    /\ ev.op = "getByTag"
       => \A r \in ev.pre :
            (r.cache_tag = ev.cache_tag /\ r.cache_expired_time # NULL)
            => ((\E d \in ev.ret : d.file_hash = r.file_hash)
                    <=> ev.at < r.cache_expired_time)

(* C2 -- getInfo on a record whose expiry has passed completes, returns      *)
(* absent and leaves no record under the hash; on a live record it returns  *)
(* the full record and leaves the table alone.  A call that waits for the   *)
(* lock it holds itself never completes.                                    *)
HasPassed(x, at) == x # NULL /\ at > x

C2_GetInfoExpired ==
    /\ \A t \in Threads :
          (pc[t] = "remove_lock" /\ loc[t].caller = "get_cache_info")
          => lock # t
    /\ (ev.op = "getInfo" /\ ev.found)
       => IF HasPassed(ev.row.cache_expired_time, ev.at)
          THEN ev.kind = "None" /\ SelectByHash(table, ev.file_hash) = {}
          ELSE /\ ev.kind = "dict"
               /\ ev.ret.file_hash = ev.row.file_hash
               /\ ev.ret.cache_expired_time = ev.row.cache_expired_time
               /\ table = ev.pre

(* C3 -- no cache operation blocks for ever: a thread inside a cache call   *)
(* eventually returns, and a held cache lock is eventually free again.      *)
C3_NoOperationBlocks ==
    /\ \A t \in Threads : (pc[t] # "idle") ~> (pc[t] = "idle")
    /\ (lock # NoThread) ~> (lock = NoThread)

(* C4 -- a get that finds no record under the file's hash calls the         *)
(* collaborator once, stores what it returned as a new record with no tag,  *)
(* no expiry and no note, and returns it; a get that finds a record makes   *)
(* no collaborator call, changes nothing and returns what is stored.        *)
NeverExpiring(messages_json) ==
    \A i \in 1..Len(messages_json) : messages_json[i][3] = NULL

C6_MissingFile ==
    /\ (ev.op = "get" /\ ~ev.dbread)
       => /\ ev.kind = "None"
          /\ files[ev.file_path] = NoFile
          /\ ev.calls = 0
          /\ table = ev.pre
    /\ (ev.op = "call" /\ ev.pc = "get_lock")
       => files[loc[ev.t].file_path] # NoFile

C6_Witness ==
    /\ ev.op = "get" /\ ev.kind = "None"
    /\ files[ev.file_path] = NoFile
    /\ table # {}

(* C7 -- set leaves exactly one record under the file's hash, holding the   *)
(* given messages, tag and note, with cache_expired_time = now + ttl for    *)
(* every ttl that is given, 0 included, and unset only when ttl is omitted. *)
C7_SetUpserts ==
    (ev.op = "set" /\ ev.kind = "None")
    => table = {r \in ev.pre : r.file_hash # ev.file_hash} \cup
               {Row(ev.file_hash, ev.file_path,
                    _serialize_messages(ev.messages), ev.cache_tag,
                    IF ev.expire_seconds = NULL THEN NULL
                    ELSE ev.at + ev.expire_seconds,
                    ev.cache_message)}

(* C8 -- refresh on an existing record returns TRUE and sets its expiry to  *)
(* now + d whatever it was before, changing nothing else; with no record it *)
(* returns FALSE and the table is unchanged.                                *)
C8_Renewal ==
    (ev.op = "refresh" /\ ev.kind = "bool")
    => IF StoredRow(ev) # {}
       THEN /\ ev.ret = TRUE
            /\ table = {IF r.file_hash = ev.file_hash
                        THEN [r EXCEPT !.cache_expired_time =
                                          ev.at + ev.extend_seconds]
                        ELSE r : r \in ev.pre}
       ELSE /\ ev.ret = FALSE
            /\ table = ev.pre

C8_Witness ==
    /\ ev.op = "refresh" /\ ev.kind = "bool" /\ ev.ret = TRUE
    /\ \E r \in StoredRow(ev) :
          /\ r.cache_expired_time # NULL
          /\ r.cache_expired_time > ev.at + ev.extend_seconds

(* C9 -- hash stability: the table never holds two records with one hash;   *)
(* a call addresses the record keyed by the digest of the file's bytes, so  *)
(* two paths address the same record exactly when their bytes are equal     *)
(* (the digest is taken to be collision-free); and a call changes no        *)
(* record under another hash, so the record of the old bytes stays.         *)
Addressed == {"get_lock", "set_lock", "refresh_lock", "info_lock"}

C9_HashStability ==
    /\ \A r1, r2 \in table : r1.file_hash = r2.file_hash => r1 = r2
    /\ (ev.op = "call" /\ ev.pc \in Addressed)
       => \A q \in Paths :
             files[q] # NoFile
             => ((files[q] = files[loc[ev.t].file_path])
                    <=> (_calculate_file_hash(files[q]) = loc[ev.t].file_hash))
    /\ (ev.op \in {"get", "set", "refresh", "getInfo"}
            /\ "file_hash" \in DOMAIN ev)
       => \A r \in ev.pre : r.file_hash # ev.file_hash => r \in table

C9_Witness ==
    /\ ev.op = "get" /\ ev.kind = "list" /\ ev.hit
    /\ ev.row.file_path # ev.file_path
    /\ \E r1, r2 \in table :
          r1.file_path = r2.file_path /\ r1.file_hash # r2.file_hash

(* C10 -- getByTag returns exactly the stored records whose tag is the one  *)
(* asked for, each with its stored messages in stored order minus those     *)
(* whose expired_time is set and in the past, and changes nothing.          *)
Live(messages_json, at) ==
    {i \in 1..Len(messages_json) :
        messages_json[i][3] = NULL \/ ~(messages_json[i][3] < at)}

Nth(S, k) == CHOOSE i \in S : Cardinality({j \in S : j < i}) = k - 1

LiveMessages(d, r, at) ==
    /\ Len(d.messages) = Cardinality(Live(r.messages, at))
    /\ \A k \in 1..Len(d.messages) :
          LET m == r.messages[Nth(Live(r.messages, at), k)]
          IN  d.messages[k] = [role |-> m[1], content |-> m[2],
                               expired_time |-> m[3]]

C10_GetByTag ==
    ev.op = "getByTag"
    => /\ table = ev.pre
       /\ \A r \in ev.pre :
             r.cache_tag = ev.cache_tag
             => \E d \in ev.ret : d.file_hash = r.file_hash
       /\ \A d \in ev.ret :
             \E r \in ev.pre :
                /\ r.cache_tag = ev.cache_tag
                /\ d.file_hash = r.file_hash
                /\ d.file_path = r.file_path
                /\ d.cache_tag = r.cache_tag
                /\ d.cache_expired_time = r.cache_expired_time
                /\ d.cache_message = r.cache_message
                /\ LiveMessages(d, r, ev.at)

C10_Witness ==
    /\ ev.op = "getByTag"
    /\ \E r \in ev.pre : r.cache_tag # ev.cache_tag
    /\ \E d \in ev.ret :
          /\ d.messages # <<>>
          /\ \E r \in ev.pre :
                r.file_hash = d.file_hash /\ Len(d.messages) < Len(r.messages)

----------------------------------------------------------------------------
(* Session store (KimiSessionMan, kimi_session_man.py).                     *)
(*                                                                          *)
(* `sessions` is the in-memory table self.sessions, `snapshots` the files   *)
(* <user_id>.json of the save directory, both functions on the user ids    *)
(* they hold, and `last_cleanup` is self._last_cleanup.  A message is       *)
(* [role, content, timestamp]; timestamp = NULL is a message that has no    *)
(* 'timestamp' key (the messages a session is created with).  A method is   *)
(* an operator from the store before the call to the store after it, with  *)
(* the outcome of the call in `out`, and one action when a single thread    *)
(* calls it; the value a statement computes is handed on as an argument of  *)
(* the operator for the statements after it.                                *)

MaxMessages == 3
MaxCount == 2
MaxLater == 1

Users == {"u1", "u2"}
Roles == {"system", "user"}
Texts == {"a", "b"}
Keys == {"k"}
Values == {"v"}

character_desc == "persona"
knowledge_file == "pa"

CleanupInterval == 3600
DefaultExpireSeconds == 259200
DefaultMaxMessages == 300
HitRateNum == 4
HitRateDen == 5
DefaultTtl == 3600

Message(r, c, ts) == [role |-> r, content |-> c, timestamp |-> ts]

Session(user_id, messages, current_time) ==
    [user_id |-> user_id, messages |-> messages,
     cache_hit_count |-> 0, cache_miss_count |-> 0,
     last_active_time |-> current_time, context |-> <<>>]

Store(S, F, lc, tbl, out) ==
    [sessions |-> S, snapshots |-> F, last_cleanup |-> lc, table |-> tbl,
     out |-> out]

Put(f, k, v) == [x \in DOMAIN f \cup {k} |-> IF x = k THEN v ELSE f[x]]

Drop(f, K) == [x \in DOMAIN f \ K |-> f[x]]

Session_add_message_front(session, role, content, current_time) ==
    [session EXCEPT
        !.messages = <<Message(role, content, current_time)>> \o @,
        !.last_active_time = current_time]

Session_add_message(session, role, content, current_time) ==
    [session EXCEPT
        !.messages = Append(@, Message(role, content, current_time)),
        !.last_active_time = current_time]

get_cache_hit_rate_above(session) ==
    LET total == session.cache_hit_count + session.cache_miss_count
    IN  IF total > 0
        THEN session.cache_hit_count * HitRateDen > HitRateNum * total
        ELSE FALSE

to_dict(session) ==
    [user_id |-> session.user_id, messages |-> session.messages,
     cache_hit_count |-> session.cache_hit_count,
     cache_miss_count |-> session.cache_miss_count,
     last_active_time |-> session.last_active_time,
     context |-> session.context]

_save_session(F, session) == Put(F, session.user_id, to_dict(session))

(* get_cache run to its end by one thread with nobody else in the cache *)
get_cache_ingest(tbl, file_hash, p, up) ==
    IF up.raised
    THEN [table |-> tbl, kind |-> "raise", ret |-> <<>>]
    ELSE [table |-> get_cache_miss(tbl,
                                   Row(file_hash, p,
                                       _serialize_messages(up.messages),
                                       None, NULL, None),
                                   up.messages),
          kind |-> IF up.messages = <<>> THEN "str" ELSE "list",
          ret |-> up.messages]

get_cache_select(tbl, fs, p, answer, current_time, file_hash, rows) ==
    IF rows # {}
    THEN [table |-> tbl, kind |-> "list",
          ret |-> _deserialize_messages((CHOOSE r \in rows : TRUE).messages,
                                        current_time)]
    ELSE get_cache_ingest(tbl, file_hash, p, upload_files(fs, p, answer))

get_cache(tbl, fs, p, answer, current_time) ==
    IF ~FileExists(fs, p)
    THEN [table |-> tbl, kind |-> "None", ret |-> <<>>]
    ELSE IF ~CanOpen(fs, p)
    THEN [table |-> tbl, kind |-> "raise", ret |-> <<>>]
    ELSE get_cache_select(tbl, fs, p, answer, current_time,
                          _calculate_file_hash(fs[p]),
                          SelectByHash(tbl, _calculate_file_hash(fs[p])))

(* refresh_cache run to its end by one thread *)
refresh_cache(tbl, fs, p, extend_seconds, current_time) ==
    {IF r.file_hash = _calculate_file_hash(fs[p])
     THEN RefreshedRow(r, current_time, extend_seconds)
     ELSE r : r \in tbl}

(* _deduplicate_messages *)
IsSystem(msg) == msg.role = "system"

IsOther(msg) == msg.role # "system"

RECURSIVE Reverse(_)
Reverse(s) == IF s = <<>> THEN <<>> ELSE Reverse(Tail(s)) \o <<Head(s)>>

RECURSIVE unique_scan(_, _)
unique_scan(msgs, seen_contents) ==
    IF msgs = <<>> THEN <<>>
    ELSE IF Head(msgs).content \in seen_contents
    THEN unique_scan(Tail(msgs), seen_contents)
    ELSE <<Head(msgs)>>
         \o unique_scan(Tail(msgs), seen_contents \cup {Head(msgs).content})

unique_messages_first(other_messages) == unique_scan(other_messages, {})

unique_messages(other_messages) ==
    Reverse(unique_scan(Reverse(other_messages), {}))

deduplicated(system_messages, other_messages, unique) ==
    [messages |-> system_messages \o unique,
     duplicates_removed |-> Len(other_messages) - Len(unique)]

_deduplicate_messages(messages) ==
    deduplicated(SelectSeq(messages, IsSystem), SelectSeq(messages, IsOther),
                 unique_messages(SelectSeq(messages, IsOther)))

(* clear_expired_sessions: one session of the loop (lines 271-317) *)
IdleSession_ge(session, current_time, expire_seconds) ==
    current_time - session.last_active_time >= expire_seconds

IdleSession(session, current_time, expire_seconds) ==
    current_time - session.last_active_time > expire_seconds

kept_messages_oldest(other_messages, keep_count) ==
    IF keep_count > 0
    THEN SubSeq(other_messages, 1,
                IF keep_count < Len(other_messages) THEN keep_count
                ELSE Len(other_messages))
    ELSE <<>>

kept_messages(other_messages, keep_count) ==
    IF keep_count > 0
    THEN SubSeq(other_messages,
                IF keep_count < Len(other_messages)
                THEN Len(other_messages) - keep_count + 1 ELSE 1,
                Len(other_messages))
    ELSE <<>>

truncated(d, system_messages, kept) ==
    [messages |-> system_messages \o kept,
     cleaned |-> d.duplicates_removed
                 + (Len(d.messages) - (Len(system_messages) + Len(kept)))]

truncate(d, max_messages) ==
    IF Len(d.messages) > max_messages
    THEN truncated(d, SelectSeq(d.messages, IsSystem),
                   kept_messages(SelectSeq(d.messages, IsOther),
                                 max_messages
                                 - Len(SelectSeq(d.messages, IsSystem))))
    ELSE [messages |-> d.messages, cleaned |-> d.duplicates_removed]

CleanMessages(messages, max_messages) ==
    truncate(_deduplicate_messages(messages), max_messages)

RECURSIVE SumOver(_, _)
SumOver(f, D) ==
    IF D = {} THEN 0
    ELSE f[CHOOSE y \in D : TRUE] + SumOver(f, D \ {CHOOSE y \in D : TRUE})

total_cleaned_with_expired(S, clean) ==
    SumOver([u \in DOMAIN S |->
                IF u \in DOMAIN clean THEN clean[u].cleaned
                ELSE Len(S[u].messages)], DOMAIN S)

total_cleaned_messages(S, clean) ==
    SumOver([u \in DOMAIN clean |-> clean[u].cleaned], DOMAIN clean)

(* the sessions the loop saves: those whose number of messages changed *)
SavedUsers(S, clean) ==
    {u \in DOMAIN clean : Len(clean[u].messages) # Len(S[u].messages)}

cleared(st, expired_users, clean) ==
    Store([u \in DOMAIN clean |->
              [st.sessions[u] EXCEPT !.messages = clean[u].messages]],
          [u \in (DOMAIN st.snapshots \cup SavedUsers(st.sessions, clean))
                 \ expired_users |->
              IF u \in SavedUsers(st.sessions, clean)
              THEN to_dict([st.sessions[u] EXCEPT
                               !.messages = clean[u].messages])
              ELSE st.snapshots[u]],
          st.last_cleanup, st.table,
          [ret |-> <<Cardinality(expired_users),
                     total_cleaned_messages(st.sessions, clean)>>])

clear_expired_users(st, expired_users, max_messages) ==
    cleared(st, expired_users,
            [u \in DOMAIN st.sessions \ expired_users |->
                CleanMessages(st.sessions[u].messages, max_messages)])

clear_expired_sessions(st, current_time, expire_seconds, max_messages) ==
    clear_expired_users(
        st,
        {u \in DOMAIN st.sessions :
            IdleSession(st.sessions[u], current_time, expire_seconds)},
        max_messages)

(* get_session *)
RECURSIVE knowledge_messages(_)
knowledge_messages(cache_messages) ==
    IF cache_messages = <<>> THEN <<>>
    ELSE <<Message(Head(cache_messages).role, Head(cache_messages).content,
                   NULL)>>
         \o knowledge_messages(Tail(cache_messages))

initial_messages_bare(cache_messages) == knowledge_messages(cache_messages)

initial_messages(cache_messages) ==
    <<Message("system", character_desc, NULL)>>
    \o knowledge_messages(cache_messages)

periodic_cleanup(st, current_time) ==
    IF current_time - st.last_cleanup > CleanupInterval
    THEN [clear_expired_sessions(st, current_time, DefaultExpireSeconds,
                                 DefaultMaxMessages)
          EXCEPT !.last_cleanup = current_time]
    ELSE st

new_session(st, user_id, current_time, g) ==
    IF g.kind \in {"raise", "str"}
    THEN Store(st.sessions, st.snapshots, st.last_cleanup, g.table,
               [raised |-> TRUE, is_new |-> FALSE])
    ELSE Store(Put(st.sessions, user_id,
                   Session(user_id, initial_messages(g.ret), current_time)),
               st.snapshots, st.last_cleanup, g.table,
               [raised |-> FALSE, is_new |-> TRUE])

lookup_session(st, user_id, current_time, fs, answer) ==
    IF user_id \in DOMAIN st.sessions
    THEN [st EXCEPT !.out = [raised |-> FALSE, is_new |-> FALSE]]
    ELSE new_session(st, user_id, current_time,
                     get_cache(st.table, fs, knowledge_file, answer,
                               current_time))

get_session(st, user_id, current_time, fs, answer) ==
    lookup_session(periodic_cleanup(st, current_time), user_id, current_time,
                   fs, answer)

(* add_message *)
appended(g, user_id, session) ==
    Store(Put(g.sessions, user_id, session), _save_session(g.snapshots, session),
          g.last_cleanup, g.table, [raised |-> FALSE])

add_message_to(g, user_id, role, content, current_time) ==
    IF g.out.raised THEN [g EXCEPT !.out = [raised |-> TRUE]]
    ELSE appended(g, user_id,
                  Session_add_message(g.sessions[user_id], role, content,
                                      current_time))

add_message(st, user_id, role, content, current_time, fs, answer) ==
    add_message_to(get_session(st, user_id, current_time, fs, answer),
                   user_id, role, content, current_time)

(* add_temp_knowledge.  `c` is what get_cache returned: a list of messages, *)
(* the failure string, or None.  Only a dict has the .get the hit branch    *)
(* calls on it; the keyword arguments of the miss branch are bound against  *)
(* the parameters of set_cache.                                             *)
HasGet(kind) == kind = "dict"

set_cache_parameters ==
    {"file_path", "messages", "cache_tag", "expire_seconds", "cache_message"}

set_cache_required == {"file_path", "messages"}

miss_keywords ==
    {"file_path", "file_id", "message", "cache_tag", "expire_seconds"}

Binds(keywords, parameters, required) ==
    keywords \subseteq parameters /\ required \subseteq keywords

temp_hit(g, c, user_id, file_path, expire_seconds, current_time, fs, hit) ==
    Store(Put(g.sessions, user_id, hit), g.snapshots, g.last_cleanup,
          IF get_cache_hit_rate_above(hit)
          THEN refresh_cache(c.table, fs, file_path, expire_seconds * 2,
                             current_time)
          ELSE c.table,
          [raised |-> ~HasGet(c.kind), branch |-> "hit",
           refresh |-> get_cache_hit_rate_above(hit), ret |-> None,
           cache |-> c.kind])

temp_miss(g, c, user_id, file_path, expire_seconds, current_time, fs, miss, bound) ==
    Store(Put(g.sessions, user_id, miss), g.snapshots, g.last_cleanup,
          IF bound
          THEN insert_cache(c.table,
                            Row(_calculate_file_hash(fs[file_path]), file_path,
                                <<>>, user_id,
                                ExpiredTime(current_time, expire_seconds),
                                None))
          ELSE c.table,
          [raised |-> ~bound, branch |-> "miss", refresh |-> FALSE,
           ret |-> None, cache |-> c.kind])

temp_with(g, c, user_id, file_path, expire_seconds, current_time, fs) ==
    IF c.kind = "raise"
    THEN [g EXCEPT !.table = c.table,
                   !.out = [raised |-> TRUE, branch |-> "none",
                            refresh |-> FALSE, ret |-> None,
                            cache |-> c.kind]]
    ELSE IF c.kind = "str" \/ (c.kind = "list" /\ c.ret # <<>>)
    THEN temp_hit(g, c, user_id, file_path, expire_seconds, current_time, fs,
                  [g.sessions[user_id] EXCEPT !.cache_hit_count = @ + 1])
    ELSE temp_miss(g, c, user_id, file_path, expire_seconds, current_time, fs,
                   [g.sessions[user_id] EXCEPT !.cache_miss_count = @ + 1],
                   Binds(miss_keywords, set_cache_parameters,
                         set_cache_required))

temp_in(g, user_id, file_path, expire_seconds, current_time, fs, answer2) ==
    IF g.out.raised
    THEN [g EXCEPT !.out = [raised |-> TRUE, branch |-> "none",
                            refresh |-> FALSE, ret |-> None,
                            cache |-> "unused"]]
    ELSE temp_with(g, get_cache(g.table, fs, file_path, answer2, current_time),
                   user_id, file_path, expire_seconds, current_time, fs)

add_temp_knowledge(st, user_id, file_path, expire_seconds, current_time, fs, answer, answer2) ==
    temp_in(get_session(st, user_id, current_time, fs, answer),
            user_id, file_path, expire_seconds, current_time, fs, answer2)

(* set_context / get_context *)
context_set(g, user_id, session) ==
    Store(Put(g.sessions, user_id, session), _save_session(g.snapshots, session),
          g.last_cleanup, g.table, [raised |-> FALSE])

set_context_in(g, user_id, key, value) ==
    IF g.out.raised THEN [g EXCEPT !.out = [raised |-> TRUE]]
    ELSE context_set(g, user_id,
                     [g.sessions[user_id] EXCEPT
                         !.context = Put(@, key, value)])

set_context(st, user_id, key, value, current_time, fs, answer) ==
    set_context_in(get_session(st, user_id, current_time, fs, answer),
                   user_id, key, value)

get_context_in(g, user_id, key) ==
    IF g.out.raised THEN [g EXCEPT !.out = [raised |-> TRUE, ret |-> None]]
    ELSE [g EXCEPT !.out =
             [raised |-> FALSE,
              ret |-> IF key \in DOMAIN g.sessions[user_id].context
                      THEN g.sessions[user_id].context[key] ELSE None]]

get_context(st, user_id, key, current_time, fs, answer) ==
    get_context_in(get_session(st, user_id, current_time, fs, answer),
                   user_id, key)

----------------------------------------------------------------------------
(* The session store used by one thread: every method is one step, and the  *)
(* event of a step says which call it was, with its arguments and outcome.  *)

Cur == Store(sessions, snapshots, last_cleanup, table, <<>>)

Quiet == lock = NoThread /\ \A t \in Threads : Idle(t)

Commit(r, e) ==
    /\ Quiet
    /\ sessions' = r.sessions
    /\ snapshots' = r.snapshots
    /\ last_cleanup' = r.last_cleanup
    /\ table' = r.table
    /\ ev' = e @@ r.out
    /\ UNCHANGED <<now, files, lock, pc, loc>>

IsStamped(msg) == msg.timestamp # NULL

Stamped(S, user_id) ==
    IF user_id \in DOMAIN S
    THEN Len(SelectSeq(S[user_id].messages, IsStamped))
    ELSE 0

Counted(S, user_id) ==
    IF user_id \in DOMAIN S
    THEN S[user_id].cache_hit_count + S[user_id].cache_miss_count
    ELSE 0

get_session_call(user_id, answer) ==
    Commit(get_session(Cur, user_id, now, files, answer),
           [op |-> "get_session", user_id |-> user_id, answer |-> answer])

add_message_call(user_id, role, content, answer) ==
    /\ Stamped(sessions, user_id) < MaxMessages
    /\ Commit(add_message(Cur, user_id, role, content, now, files, answer),
              [op |-> "add_message", user_id |-> user_id, role |-> role,
               content |-> content, answer |-> answer])

add_temp_knowledge_call(user_id, file_path, expire_seconds, answer, answer2) ==
    /\ Counted(sessions, user_id) < MaxCount
    /\ Commit(add_temp_knowledge(Cur, user_id, file_path, expire_seconds, now,
                                 files, answer, answer2),
              [op |-> "add_temp_knowledge", user_id |-> user_id,
               file_path |-> file_path, expire_seconds |-> expire_seconds,
               answer |-> answer, answer2 |-> answer2])

set_context_call(user_id, key, value, answer) ==
    Commit(set_context(Cur, user_id, key, value, now, files, answer),
           [op |-> "set_context", user_id |-> user_id, key |-> key,
            value |-> value, answer |-> answer])

get_context_call(user_id, key, answer) ==
    Commit(get_context(Cur, user_id, key, now, files, answer),
           [op |-> "get_context", user_id |-> user_id, key |-> key,
            answer |-> answer])

clear_expired_sessions_call(expire_seconds, max_messages) ==
    Commit(clear_expired_sessions(Cur, now, expire_seconds, max_messages),
           [op |-> "clear_expired_sessions",
            expire_seconds |-> expire_seconds,
            max_messages |-> max_messages])

(* The clock passes the cleanup interval *)
Later ==
    /\ now < MaxLater * (CleanupInterval + 1)
    /\ now' = now + CleanupInterval + 1
    /\ ev' = NoEv
    /\ UNCHANGED <<files, table, lock, pc, loc, svars>>

IdleLimits == {0, CleanupInterval, DefaultExpireSeconds}
Caps == {1, 3, DefaultMaxMessages}
Ttls == {DefaultTtl}

(* One user: creation, messages and the cleanup pass *)
SoloUsers == {"u1"}

SessNext ==
    \/ \E u \in SoloUsers, answer \in Answers : get_session_call(u, answer)
    \/ \E u \in SoloUsers, role \in Roles, content \in Texts,
          answer \in Answers :
          add_message_call(u, role, content, answer)
    \/ \E expire_seconds \in IdleLimits, max_messages \in Caps :
          clear_expired_sessions_call(expire_seconds, max_messages)
    \/ Later

SessSpec == Init /\ [][SessNext]_vars

(* One user: temporary knowledge files and the context *)
KnowNext ==
    \/ \E u \in SoloUsers, answer \in Answers : get_session_call(u, answer)
    \/ \E u \in SoloUsers, p \in Paths, ttl \in Ttls,
          answer, answer2 \in Answers :
          add_temp_knowledge_call(u, p, ttl, answer, answer2)
    \/ \E u \in SoloUsers, key \in Keys, value \in Values,
          answer \in Answers :
          set_context_call(u, key, value, answer)
    \/ \E u \in SoloUsers, key \in Keys, answer \in Answers :
          get_context_call(u, key, answer)
    \/ Later
    \/ \E p \in Rewritten, c \in Contents \cup {NoFile} : WriteFile(p, c)

KnowSpec == Init /\ [][KnowNext]_vars

(* Two users writing user messages, the knowledge file ingested without    *)
(* failure, and the cleanup pass over both sessions                         *)
PassRoles == {"user"}
PassAnswers == {"ok"}

PassInit ==
    /\ Init
    /\ \A p \in Paths : files[p] = <<1>>

PassNext ==
    \/ \E u \in Users, answer \in PassAnswers : get_session_call(u, answer)
    \/ \E u \in Users, role \in PassRoles, content \in Texts,
          answer \in PassAnswers :
          add_message_call(u, role, content, answer)
    \/ \E expire_seconds \in IdleLimits, max_messages \in Caps :
          clear_expired_sessions_call(expire_seconds, max_messages)
    \/ Later

PassSpec == PassInit /\ [][PassNext]_vars

(* _deduplicate_messages by itself, on every list of at most MaxLen         *)
(* messages; the timestamp of a message is its place in the list.           *)
MaxLen == 4

MessageLists ==
    UNION {[1..n -> Roles \X Texts] : n \in 0..MaxLen}

Listed(f) == [i \in DOMAIN f |-> Message(f[i][1], f[i][2], i)]

deduplicate_call(messages) ==
    /\ Quiet
    /\ ev' = [op |-> "_deduplicate_messages", messages |-> messages,
              ret |-> _deduplicate_messages(messages)]
    /\ UNCHANGED <<now, files, table, lock, pc, loc, svars>>

DedupNext == \E f \in MessageLists : deduplicate_call(Listed(f))

DedupSpec == PassInit /\ [][DedupNext]_vars

----------------------------------------------------------------------------
(* The session store used by two threads.  KimiSessionMan has no lock of    *)
(* its own, so a thread can be switched out between the statements of a     *)
(* method.  The cleanup pass is: create the iterator of                     *)
(* self.sessions.items() (begin); take the next item and compute the        *)
(* cleaned list of its messages (next); assign session.messages and save    *)
(* (write); delete the idle sessions and return (delete).  add_message is:  *)
(* get_session (begin); session.add_message (append); _save_session (save). *)
(* A dict iterator raises RuntimeError at its next item when the dict has   *)
(* changed size since the iterator was created.                             *)

Cleaners == {1}
Mutators == {2}

Move(t, label, locals, e) ==
    /\ pc' = [pc EXCEPT ![t] = label]
    /\ loc' = [loc EXCEPT ![t] = locals]
    /\ ev' = e

Return(t, e) ==
    /\ pc' = [pc EXCEPT ![t] = "idle"]
    /\ loc' = [loc EXCEPT ![t] = <<>>]
    /\ ev' = e

clear_expired_sessions_begin(t, expire_seconds, max_messages) ==
    /\ Idle(t)
    /\ Move(t, "clear_loop",
            [current_time |-> now, expire_seconds |-> expire_seconds,
             max_messages |-> max_messages,
             size |-> Cardinality(DOMAIN sessions), todo |-> DOMAIN sessions,
             expired_users |-> {}, total_cleaned_messages |-> 0],
            [op |-> "call", t |-> t, pc |-> "clear_loop"])
    /\ UNCHANGED <<now, files, table, lock, svars>>

clear_expired_sessions_next(t) ==
    /\ pc[t] = "clear_loop"
    /\ IF Cardinality(DOMAIN sessions) # loc[t].size
       THEN Return(t, [op |-> "clear_expired_sessions", t |-> t,
                       raised |-> TRUE])
       ELSE IF loc[t].todo = {}
       THEN Move(t, "clear_delete", loc[t],
                 [op |-> "call", t |-> t, pc |-> "clear_delete"])
       ELSE \E u \in loc[t].todo :
               IF IdleSession(sessions[u], loc[t].current_time,
                              loc[t].expire_seconds)
               THEN Move(t, "clear_loop",
                         [loc[t] EXCEPT !.todo = @ \ {u},
                                        !.expired_users = @ \cup {u}],
                         [op |-> "call", t |-> t, pc |-> "clear_loop"])
               ELSE Move(t, "clear_write",
                         [loc[t] EXCEPT !.todo = @ \ {u}]
                         @@ [user_id |-> u,
                             original_count |-> Len(sessions[u].messages),
                             clean |-> CleanMessages(sessions[u].messages,
                                                     loc[t].max_messages)],
                         [op |-> "call", t |-> t, pc |-> "clear_write"])
    /\ UNCHANGED <<now, files, table, lock, svars>>

written(S, u, messages) == [S EXCEPT ![u].messages = messages]

clear_expired_sessions_write(t) ==
    /\ pc[t] = "clear_write"
    /\ sessions' = written(sessions, loc[t].user_id, loc[t].clean.messages)
    /\ snapshots' =
          IF Len(loc[t].clean.messages) # loc[t].original_count
          THEN _save_session(snapshots, sessions'[loc[t].user_id])
          ELSE snapshots
    /\ Move(t, "clear_loop",
            [x \in DOMAIN loc[t] \ {"user_id", "original_count", "clean"} |->
                IF x = "total_cleaned_messages"
                THEN loc[t][x] + loc[t].clean.cleaned ELSE loc[t][x]],
            [op |-> "clear_write", t |-> t, user_id |-> loc[t].user_id,
             max_messages |-> loc[t].max_messages])
    /\ UNCHANGED <<now, files, table, lock, last_cleanup>>

clear_expired_sessions_delete(t) ==
    /\ pc[t] = "clear_delete"
    /\ sessions' = Drop(sessions, loc[t].expired_users)
    /\ snapshots' = Drop(snapshots, loc[t].expired_users)
    /\ Return(t, [op |-> "clear_expired_sessions", t |-> t, raised |-> FALSE,
                  ret |-> <<Cardinality(loc[t].expired_users),
                            loc[t].total_cleaned_messages>>])
    /\ UNCHANGED <<now, files, table, lock, last_cleanup>>

Fetched(t, r, label, locals, e) ==
    /\ sessions' = r.sessions
    /\ snapshots' = r.snapshots
    /\ last_cleanup' = r.last_cleanup
    /\ table' = r.table
    /\ IF r.out.raised THEN Return(t, e @@ r.out)
       ELSE Move(t, label, locals, [op |-> "call", t |-> t, pc |-> label])
    /\ UNCHANGED <<now, files, lock>>

add_message_begin(t, user_id, role, content, answer) ==
    /\ Idle(t)
    /\ lock = NoThread
    /\ Stamped(sessions, user_id) < MaxMessages
    /\ Fetched(t, get_session(Cur, user_id, now, files, answer), "add_append",
               [user_id |-> user_id, role |-> role, content |-> content],
               [op |-> "add_message", t |-> t, user_id |-> user_id,
                role |-> role, content |-> content])

add_message_append(t) ==
    /\ pc[t] = "add_append"
    /\ sessions' = [sessions EXCEPT ![loc[t].user_id] =
                       Session_add_message(@, loc[t].role, loc[t].content,
                                           now)]
    /\ Move(t, "add_save", loc[t], [op |-> "call", t |-> t, pc |-> "add_save"])
    /\ UNCHANGED <<now, files, table, lock, snapshots, last_cleanup>>

add_message_save(t) ==
    /\ pc[t] = "add_save"
    /\ snapshots' = _save_session(snapshots, sessions[loc[t].user_id])
    /\ Return(t, [op |-> "add_message", t |-> t, user_id |-> loc[t].user_id,
                  role |-> loc[t].role, content |-> loc[t].content,
                  raised |-> FALSE])
    /\ UNCHANGED <<now, files, table, lock, sessions, last_cleanup>>

Called(t, r, e) ==
    /\ Idle(t)
    /\ lock = NoThread
    /\ sessions' = r.sessions
    /\ snapshots' = r.snapshots
    /\ last_cleanup' = r.last_cleanup
    /\ table' = r.table
    /\ ev' = e @@ r.out
    /\ UNCHANGED <<now, files, lock, pc, loc>>

get_session_by(t, user_id, answer) ==
    Called(t, get_session(Cur, user_id, now, files, answer),
           [op |-> "get_session", t |-> t, user_id |-> user_id,
            answer |-> answer])

set_context_by(t, user_id, key, value, answer) ==
    Called(t, set_context(Cur, user_id, key, value, now, files, answer),
           [op |-> "set_context", t |-> t, user_id |-> user_id, key |-> key,
            value |-> value, answer |-> answer])

RaceCaps == {DefaultMaxMessages}
RaceTexts == {"a"}

RaceNext ==
    \/ \E t \in Cleaners, max_messages \in RaceCaps :
          clear_expired_sessions_begin(t, DefaultExpireSeconds, max_messages)
    \/ \E t \in Cleaners : clear_expired_sessions_next(t)
    \/ \E t \in Cleaners : clear_expired_sessions_write(t)
    \/ \E t \in Cleaners : clear_expired_sessions_delete(t)
    \/ \E t \in Mutators, u \in Users, role \in PassRoles,
          content \in RaceTexts,
          answer \in PassAnswers :
          add_message_begin(t, u, role, content, answer)
    \/ \E t \in Mutators : add_message_append(t)
    \/ \E t \in Mutators : add_message_save(t)
    \/ \E t \in Mutators, u \in Users, answer \in PassAnswers :
          get_session_by(t, u, answer)
    \/ \E t \in Mutators, u \in Users, key \in Keys, value \in Values,
          answer \in PassAnswers :
          set_context_by(t, u, key, value, answer)

RaceSpec == PassInit /\ [][RaceNext]_vars

----------------------------------------------------------------------------
(* The message operations of the cache, add_message and                     *)
(* clear_expired_messages.  Both call get_cache_info, which takes and       *)
(* releases the lock, work on the dict it returned, and call set_cache,     *)
(* which takes the lock again.  get_cache_info on an expired record calls   *)
(* remove_cache while it holds the lock, where the thread stays.            *)

MaxStored == 2

MessageTexts == {"p", "q"}

StoredMessages(tbl, h) ==
    IF SelectByHash(tbl, h) = {} THEN <<>>
    ELSE (CHOOSE r \in SelectByHash(tbl, h) : TRUE).messages

message_info_call(t, p, caller, args) ==
    /\ Idle(t)
    /\ IF ~FileExists(files, p)
       THEN Finish(t, [op |-> caller, t |-> t, file_path |-> p,
                       kind |-> "value", found |-> FALSE,
                       ret |-> 0])
       ELSE IF ~CanOpen(files, p)
       THEN Finish(t, [op |-> caller, t |-> t, file_path |-> p,
                       kind |-> "raise", found |-> FALSE])
       ELSE Goto(t, "message_info",
                 args @@ [caller |-> caller, file_path |-> p,
                          file_hash |-> _calculate_file_hash(files[p])])
    /\ UNCHANGED <<now, files, table, lock>>

cache_add_message_call(t, p, role, content, expire_seconds) ==
    /\ Len(StoredMessages(table, _calculate_file_hash(files[p]))) < MaxStored
    /\ message_info_call(t, p, "add_message",
                         [role |-> role, content |-> content,
                          expire_seconds |-> expire_seconds])

clear_expired_messages_call(t, p) ==
    message_info_call(t, p, "clear_expired_messages", <<>>)

message_info_locked(t) ==
    /\ pc[t] = "message_info"
    /\ lock = NoThread
    /\ LET rows == SelectByHash(table, loc[t].file_hash)
       IN  IF rows = {}
           THEN /\ Finish(t, [op |-> loc[t].caller, t |-> t,
                              file_path |-> loc[t].file_path,
                              file_hash |-> loc[t].file_hash,
                              kind |-> "value", found |-> FALSE, ret |-> 0])
                /\ UNCHANGED lock
           ELSE LET row == CHOOSE r \in rows : TRUE
                    current_time == now
                IN  IF RecordExpired(row.cache_expired_time, current_time)
                    THEN /\ Goto(t, "remove_lock",
                                 [file_hash |-> loc[t].file_hash,
                                  caller |-> loc[t].caller,
                                  file_path |-> loc[t].file_path])
                         /\ lock' = t
                    ELSE /\ Goto(t, loc[t].caller,
                                 loc[t] @@
                                 [row |-> row, at |-> current_time,
                                  cache_info |-> RowDict(row, current_time)])
                         /\ UNCHANGED lock
    /\ UNCHANGED <<now, files, table>>

message_set_cache(t, messages, result) ==
    IF ~CanOpen(files, loc[t].file_path)
    THEN Finish(t, [op |-> loc[t].caller, t |-> t,
                    file_path |-> loc[t].file_path, kind |-> "raise",
                    found |-> TRUE])
    ELSE Goto(t, "message_set",
              [caller |-> loc[t].caller, file_path |-> loc[t].file_path,
               row |-> loc[t].row, at |-> loc[t].at, result |-> result,
               file_hash |-> _calculate_file_hash(files[loc[t].file_path]),
               messages |-> messages,
               messages_json |-> _serialize_messages(messages),
               cache_tag |-> loc[t].cache_info.cache_tag,
               expired_time |->
                   ExpiredTime(now, loc[t].cache_info.cache_expired_time),
               cache_message |-> loc[t].cache_info.cache_message])

cache_add_message_append(t) ==
    /\ pc[t] = "add_message"
    /\ message_set_cache(t,
           Append(loc[t].cache_info.messages,
                  CacheMessage(loc[t].role, loc[t].content,
                               ExpiredTime(now, loc[t].expire_seconds))),
           <<loc[t].role, loc[t].content,
             ExpiredTime(now, loc[t].expire_seconds)>>)
    /\ UNCHANGED <<now, files, table, lock>>

valid_messages(messages, current_time) ==
    LET NotExpired(msg) == ~is_expired(msg, current_time)
    IN  SelectSeq(messages, NotExpired)

clear_expired_messages_filter(t) ==
    /\ pc[t] = "clear_expired_messages"
    /\ LET original_count == Len(loc[t].cache_info.messages)
           valid == valid_messages(loc[t].cache_info.messages, now)
       IN  IF Len(valid) < original_count
           THEN message_set_cache(t, valid, original_count - Len(valid))
           ELSE Finish(t, [op |-> "clear_expired_messages", t |-> t,
                           file_path |-> loc[t].file_path,
                           file_hash |-> loc[t].file_hash,
                           kind |-> "value", found |-> TRUE,
                           row |-> loc[t].row, at |-> loc[t].at,
                           ret |-> original_count - Len(valid)])
    /\ UNCHANGED <<now, files, table, lock>>

message_set_locked(t) ==
    /\ pc[t] = "message_set"
    /\ lock = NoThread
    /\ table' = insert_cache(table,
                    Row(loc[t].file_hash, loc[t].file_path,
                        loc[t].messages_json, loc[t].cache_tag,
                        loc[t].expired_time, loc[t].cache_message))
    /\ Finish(t, [op |-> loc[t].caller, t |-> t,
                  file_path |-> loc[t].file_path,
                  file_hash |-> loc[t].file_hash, kind |-> "value",
                  found |-> TRUE, row |-> loc[t].row, at |-> loc[t].at,
                  ret |-> IF loc[t].caller = "add_message" THEN 1
                          ELSE loc[t].result,
                  new_message |-> IF loc[t].caller = "add_message"
                                  THEN loc[t].result ELSE <<>>])
    /\ UNCHANGED <<now, files, lock>>

MessageArgs == {a \in SetArgs : a.messages # <<>>}

MessageNext ==
    \/ \E t \in Callers, p \in FairPaths, a \in MessageArgs :
          set_cache_call(t, p, a)
    \/ \E t \in Callers : set_cache_locked(t)
    \/ \E t \in Threads, p \in FairPaths, role \in PassRoles,
          content \in MessageTexts, expire_seconds \in {NULL} :
          cache_add_message_call(t, p, role, content, expire_seconds)
    \/ \E t \in Callers, p \in FairPaths : clear_expired_messages_call(t, p)
    \/ \E t \in Threads : message_info_locked(t)
    \/ \E t \in Threads : cache_add_message_append(t)
    \/ \E t \in Threads : clear_expired_messages_filter(t)
    \/ \E t \in Threads : message_set_locked(t)
    \/ Tick

MessageSpec == FairInit /\ [][MessageNext]_vars

----------------------------------------------------------------------------
(* A crash of the process during a snapshot write, and the restart.         *)
(* _save_session opens <user_id>.json with mode 'w', which empties the      *)
(* file, and json.dump then writes the document into it piece by piece; a   *)
(* crash leaves the file with the pieces pieces so far.  The document is   *)
(* the list of the key/value pairs of to_dict in their order; json.load     *)
(* needs all of them.  __init__ loads every file that parses and runs one   *)
(* cleanup pass.                                                            *)

Fields ==
    <<"user_id", "messages", "cache_hit_count", "cache_miss_count",
      "last_active_time", "context">>

json_dump(data) ==
    [i \in DOMAIN Fields |-> [key |-> Fields[i], value |-> data[Fields[i]]]]

json_load(text) ==
    IF Len(text) < Len(Fields) THEN [raised |-> TRUE]
    ELSE [raised |-> FALSE,
          data |-> [k \in {text[i].key : i \in DOMAIN text} |->
                       text[CHOOSE i \in DOMAIN text : text[i].key = k]
                       .value]]

from_dict(data) ==
    [user_id |-> data.user_id, messages |-> data.messages,
     cache_hit_count |-> data.cache_hit_count,
     cache_miss_count |-> data.cache_miss_count,
     last_active_time |-> data.last_active_time,
     context |-> data.context]

truncated_file(data, pieces) ==
    [partial |-> SubSeq(json_dump(data), 1, pieces)]

read_file(f) ==
    IF "partial" \in DOMAIN f THEN json_load(f.partial)
    ELSE json_load(json_dump(f))

_load_sessions(F) ==
    [u \in {x \in DOMAIN F : ~read_file(F[x]).raised} |->
        from_dict(read_file(F[u]).data)]

KimiSessionMan_init(F, tbl, current_time) ==
    clear_expired_sessions(
        Store(_load_sessions(F), F, current_time, tbl, <<>>),
        current_time, DefaultExpireSeconds, DefaultMaxMessages)

add_message_crashed(r, user_id, role, content, pieces) ==
    /\ ~r.out.raised
    /\ sessions' = <<>>
    /\ snapshots' = Put(r.snapshots, user_id,
                        truncated_file(to_dict(r.sessions[user_id]), pieces))
    /\ last_cleanup' = r.last_cleanup
    /\ table' = r.table
    /\ pc' = [t \in Threads |-> "crashed"]
    /\ ev' = [op |-> "crash", user_id |-> user_id, role |-> role,
              content |-> content, pieces |-> pieces]
    /\ UNCHANGED <<now, files, lock, loc>>

add_message_crash(user_id, role, content, answer, pieces) ==
    /\ Quiet
    /\ Stamped(sessions, user_id) < MaxMessages
    /\ add_message_crashed(
           add_message(Cur, user_id, role, content, now, files, answer),
           user_id, role, content, pieces)

KimiSessionMan_restarted(r) ==
    /\ sessions' = r.sessions
    /\ snapshots' = r.snapshots
    /\ last_cleanup' = r.last_cleanup
    /\ pc' = [t \in Threads |-> "idle"]
    /\ ev' = [op |-> "restart"] @@ r.out
    /\ UNCHANGED <<now, files, table, lock, loc>>

restart ==
    /\ \A t \in Threads : pc[t] = "crashed"
    /\ KimiSessionMan_restarted(KimiSessionMan_init(snapshots, table, now))

CrashNext ==
    \/ \E u \in SoloUsers, answer \in PassAnswers : get_session_call(u, answer)
    \/ \E u \in SoloUsers, role \in PassRoles, content \in Texts,
          answer \in PassAnswers :
          add_message_call(u, role, content, answer)
    \/ \E u \in SoloUsers, role \in PassRoles, content \in Texts,
          answer \in PassAnswers, pieces \in 0..(Len(Fields) - 1) :
          add_message_crash(u, role, content, answer, pieces)
    \/ restart
    \/ Later

CrashSpec == PassInit /\ [][CrashNext]_vars

----------------------------------------------------------------------------
(* Properties of the session store.  A property of a call is a property of  *)
(* the step that makes it: the unprimed variables are the store before the  *)
(* call, the primed ones the store after it, and ev' is the call.           *)

Returned(e, op) == e.op = op /\ ~e.raised

(* what get_cache(knowledge_file) yields at the time of the call *)
KnowledgeNow(answer) == get_cache(table, files, knowledge_file, answer, now).ret

SeededFrom(messages, cache_messages) ==
    /\ Len(messages) = 1 + Len(cache_messages)
    /\ messages[1] = Message("system", character_desc, NULL)
    /\ \A i \in 1..Len(cache_messages) :
          /\ messages[i + 1].role = cache_messages[i].role
          /\ messages[i + 1].content = cache_messages[i].content

(* the table after the cleanup pass get_session runs first when the last    *)
(* one is more than CleanupInterval old                                     *)
CleanupDue == now - last_cleanup > CleanupInterval

Swept ==
    IF CleanupDue
    THEN clear_expired_sessions(Cur, now, DefaultExpireSeconds,
                                DefaultMaxMessages).sessions
    ELSE sessions

(* C11 as stated -- a get_session that returns gives back the session that  *)
(* was in the table before the call, is_new = FALSE and its messages as     *)
(* they were; with no session in the table it puts one there, is_new =      *)
(* TRUE, whose messages are the persona entry followed in order by the      *)
(* messages get_cache(knowledge_file) returns (the persona entry alone when *)
(* it returns none).                                                        *)
C11_GetOrCreate ==
    [][Returned(ev', "get_session") =>
        /\ ev'.user_id \in DOMAIN sessions'
        /\ IF ev'.user_id \in DOMAIN sessions
           THEN /\ ~ev'.is_new
                /\ sessions'[ev'.user_id].messages
                   = sessions[ev'.user_id].messages
           ELSE /\ ev'.is_new
                /\ SeededFrom(sessions'[ev'.user_id].messages,
                              KnowledgeNow(ev'.answer))]_vars

(* C11 -- a get_session that returns first runs the cleanup pass when one   *)
(* is due; it gives back the session the table holds after that pass,       *)
(* is_new = FALSE and the session as the pass left it (untouched when no    *)
(* pass was due); with no session in the table after the pass it puts one   *)
(* there, is_new = TRUE, counters 0, empty context, whose messages are the  *)
(* persona entry followed in order by the messages                          *)
(* get_cache(knowledge_file) returns (the persona entry alone when it       *)
(* returns none).                                                           *)
C11_GetOrCreateAfterCleanup ==
    [][Returned(ev', "get_session") =>
        /\ ev'.user_id \in DOMAIN sessions'
        /\ IF ev'.user_id \in DOMAIN Swept
           THEN /\ ~ev'.is_new
                /\ sessions'[ev'.user_id] = Swept[ev'.user_id]
           ELSE /\ ev'.is_new
                /\ SeededFrom(sessions'[ev'.user_id].messages,
                              KnowledgeNow(ev'.answer))
                /\ sessions'[ev'.user_id].cache_hit_count = 0
                /\ sessions'[ev'.user_id].cache_miss_count = 0
                /\ sessions'[ev'.user_id].context = <<>>]_vars

C11_Witness ==
    /\ Returned(ev, "get_session")
    /\ ev.is_new
    /\ Len(sessions[ev.user_id].messages) = 2
    /\ now > 0
    /\ last_cleanup = now

(* C12 -- between calls the in-memory table and the snapshot files hold the *)
(* same user ids: every session in memory has its snapshot file, and every  *)
(* snapshot file is the snapshot of a session in memory.                    *)
C12_MemoryAndSnapshot == DOMAIN sessions = DOMAIN snapshots

(* C13 as stated -- an add_message that returns leaves the user's session   *)
(* with the messages it had before the call (those of a new session when    *)
(* there was none), followed by the one message {role, content, timestamp = *)
(* now}; last_active_time is now and the snapshot equals the session.       *)
C13_AddMessage ==
    [][Returned(ev', "add_message") =>
        LET u == ev'.user_id
            after == sessions'[u].messages
            earlier == SubSeq(after, 1, Len(after) - 1)
        IN  /\ Len(after) >= 1
            /\ after[Len(after)] = Message(ev'.role, ev'.content, now)
            /\ IF u \in DOMAIN sessions
               THEN earlier = sessions[u].messages
               ELSE SeededFrom(earlier, KnowledgeNow(ev'.answer))
            /\ sessions'[u].last_active_time = now
            /\ u \in DOMAIN snapshots'
            /\ snapshots'[u] = sessions'[u]]_vars

(* C13 -- an add_message that returns leaves the user's session with the    *)
(* messages of the session get_session gave it -- the one in the table      *)
(* after the cleanup pass that is run first when due, a new one when there  *)
(* is none -- followed by the one message {role, content, timestamp = now}; *)
(* last_active_time is now and the snapshot equals the session.             *)
C13_AddMessageAfterCleanup ==
    [][Returned(ev', "add_message") =>
        LET u == ev'.user_id
            after == sessions'[u].messages
            earlier == SubSeq(after, 1, Len(after) - 1)
        IN  /\ Len(after) >= 1
            /\ after[Len(after)] = Message(ev'.role, ev'.content, now)
            /\ IF u \in DOMAIN Swept
               THEN earlier = Swept[u].messages
               ELSE SeededFrom(earlier, KnowledgeNow(ev'.answer))
            /\ sessions'[u].last_active_time = now
            /\ u \in DOMAIN snapshots'
            /\ snapshots'[u] = sessions'[u]]_vars

C13_Witness ==
    /\ Returned(ev, "add_message")
    /\ Stamped(sessions, ev.user_id) = 2
    /\ now > 0
    /\ last_cleanup = now

(* the counters of the session add_temp_knowledge works on: those of the    *)
(* session get_session gives it, 0 for a new one                            *)
HitsBefore(u) == IF u \in DOMAIN Swept THEN Swept[u].cache_hit_count ELSE 0

MissesBefore(u) == IF u \in DOMAIN Swept THEN Swept[u].cache_miss_count ELSE 0

RateAbove(hits, misses) == hits * HitRateDen > HitRateNum * (hits + misses)

RowsOfFile(tbl, p) == SelectByHash(tbl, _calculate_file_hash(files[p]))

(* C14 -- an add_temp_knowledge whose get_cache(file_path) yields content   *)
(* (a hit) returns a result and raises nothing; it adds one to              *)
(* cache_hit_count and leaves cache_miss_count; and it calls                *)
(* refresh_cache(file_path, 2 * ttl) -- the record of the file then expires *)
(* at now + 2 * ttl -- exactly when hits / (hits + misses) > 0.8.           *)
C14_HitRateFeedback ==
    [][(ev'.op = "add_temp_knowledge" /\ ev'.branch = "hit") =>
        LET u == ev'.user_id
            hits == HitsBefore(u) + 1
            misses == MissesBefore(u)
        IN  /\ ~ev'.raised
            /\ sessions'[u].cache_hit_count = hits
            /\ sessions'[u].cache_miss_count = misses
            /\ ev'.refresh = RateAbove(hits, misses)
            /\ ev'.refresh =>
                  \A r \in RowsOfFile(table', ev'.file_path) :
                     r.cache_expired_time = now + 2 * ev'.expire_seconds]_vars

(* C15 -- an add_temp_knowledge whose get_cache(file_path) yields nothing   *)
(* (a miss) returns None and raises nothing; it adds one to                 *)
(* cache_miss_count and leaves cache_hit_count; and afterwards the table    *)
(* holds a record of the file tagged with the user id that expires at       *)
(* now + ttl.                                                               *)
C15_MissRegisters ==
    [][(ev'.op = "add_temp_knowledge" /\ ev'.branch = "miss") =>
        LET u == ev'.user_id
        IN  /\ ~ev'.raised
            /\ ev'.ret = None
            /\ sessions'[u].cache_miss_count = MissesBefore(u) + 1
            /\ sessions'[u].cache_hit_count = HitsBefore(u)
            /\ \E r \in SelectByTag(table', u) :
                  /\ r.file_path = ev'.file_path
                  /\ r.cache_expired_time = now + ev'.expire_seconds]_vars

(* the call is a cleanup pass, called by itself *)
Pass(e) == e.op = "clear_expired_sessions"

IdleFor(session, expire_seconds) == now - session.last_active_time > expire_seconds

IdleUsers(expire_seconds) ==
    {u \in DOMAIN sessions : IdleFor(sessions[u], expire_seconds)}

(* C16 -- a cleanup pass removes from the table and from the snapshot files *)
(* exactly the sessions with now - last_active_time > expire_seconds and no *)
(* other; and a get_session for a user with no session, such as a removed   *)
(* one, returns is_new = TRUE and a session made from what get_cache        *)
(* returns at that time, with counters 0 and an empty context.              *)
C16_IdleExpiry ==
    [][/\ Pass(ev') =>
          /\ DOMAIN sessions' = DOMAIN sessions \ IdleUsers(ev'.expire_seconds)
          /\ DOMAIN snapshots' \cap IdleUsers(ev'.expire_seconds) = {}
          /\ DOMAIN snapshots \ IdleUsers(ev'.expire_seconds)
             \subseteq DOMAIN snapshots'
       /\ (Returned(ev', "get_session") /\ ev'.user_id \notin DOMAIN Swept) =>
          /\ ev'.is_new
          /\ SeededFrom(sessions'[ev'.user_id].messages,
                        KnowledgeNow(ev'.answer))
          /\ sessions'[ev'.user_id].cache_hit_count = 0
          /\ sessions'[ev'.user_id].cache_miss_count = 0
          /\ sessions'[ev'.user_id].context = <<>>
          /\ sessions'[ev'.user_id].last_active_time = now]_vars

C16_Witness ==
    /\ Pass(ev)
    /\ ev.ret[1] = 1
    /\ DOMAIN sessions = {"u2"}
    /\ DOMAIN snapshots = {"u2"}

(* C18 -- after a cleanup pass with cap max_messages a surviving session    *)
(* has at most max(max_messages, number of its system messages) messages,   *)
(* every system message it had before, and as non-system messages exactly   *)
(* the last min(n, max(0, max_messages - number of system messages)) of its *)
(* n deduplicated non-system messages; nothing is cut off when the          *)
(* deduplicated list has at most max_messages messages.                     *)
Max(a, b) == IF a > b THEN a ELSE b

Min(a, b) == IF a < b THEN a ELSE b

LastOf(s, k) == SubSeq(s, Len(s) - k + 1, Len(s))

C18_TruncationBound ==
    [][Pass(ev') =>
        \A u \in DOMAIN sessions' :
           LET before == sessions[u].messages
               after == sessions'[u].messages
               system == SelectSeq(before, IsSystem)
               deduped == _deduplicate_messages(before).messages
               others == SelectSeq(deduped, IsOther)
               cap == ev'.max_messages
           IN  /\ Len(after) <= Max(cap, Len(system))
               /\ SelectSeq(after, IsSystem) = system
               /\ SelectSeq(after, IsOther)
                  = LastOf(others,
                           Min(Len(others), Max(0, cap - Len(system))))
               /\ Len(deduped) <= cap => after = deduped]_vars

C18_Witness ==
    /\ Pass(ev)
    /\ ev.max_messages = 1
    /\ ev.ret[2] >= 1
    /\ \E u \in DOMAIN sessions :
          /\ Len(SelectSeq(sessions[u].messages, IsSystem)) = 2
          /\ Len(SelectSeq(sessions[u].messages, IsOther)) = 0

(* C19 -- a cleanup pass returns the number of sessions it removed from the *)
(* table and the sum, over the sessions that stay, of the number of         *)
(* messages before the pass minus the number after it; the messages of the  *)
(* removed sessions are not counted.                                        *)
Removed(u) == Len(sessions[u].messages) - Len(sessions'[u].messages)

C19_CleanupCounts ==
    [][Pass(ev') =>
        /\ ev'.ret[1] = Cardinality(DOMAIN sessions \ DOMAIN sessions')
        /\ ev'.ret[2] = SumOver([u \in DOMAIN sessions' |-> Removed(u)],
                                DOMAIN sessions')]_vars

C19_Witness ==
    /\ Pass(ev)
    /\ ev.ret[1] = 1
    /\ ev.ret[2] >= 1
    /\ DOMAIN sessions # {}

(* C17: the places of the input list that stay -- every system message, and *)
(* of the others the last one of each content                               *)
Deduplicating(e) == e.op = "_deduplicate_messages"

Survivors(messages) ==
    {i \in DOMAIN messages :
        \/ IsSystem(messages[i])
        \/ ~\E j \in DOMAIN messages :
              /\ j > i
              /\ IsOther(messages[j])
              /\ messages[j].content = messages[i].content}

Places(out) == {out[k].timestamp : k \in DOMAIN out}

InInputOrder(out) ==
    \A k, l \in DOMAIN out : k < l => out[k].timestamp < out[l].timestamp

KeepsSurvivors(e) ==
    /\ \A k \in DOMAIN e.ret.messages :
          /\ e.ret.messages[k].timestamp \in DOMAIN e.messages
          /\ e.ret.messages[k] = e.messages[e.ret.messages[k].timestamp]
    /\ Places(e.ret.messages) = Survivors(e.messages)
    /\ Len(e.ret.messages) = Cardinality(Survivors(e.messages))

(* C17 as stated -- deduplication keeps every system message and, of each   *)
(* distinct non-system content, exactly its last occurrence, and the        *)
(* messages kept stand in the result in the order they had in the input,    *)
(* system and non-system messages alike.                                    *)
C17_DedupOrder ==
    Deduplicating(ev) =>
        /\ KeepsSurvivors(ev)
        /\ InInputOrder(ev.ret.messages)

(* C17 -- deduplication keeps every system message and, of each distinct    *)
(* non-system content, exactly its last occurrence; the result is the       *)
(* system messages in their input order followed by the non-system messages *)
(* kept in their input order.                                               *)
C17_DedupSystemFirst ==
    Deduplicating(ev) =>
        /\ KeepsSurvivors(ev)
        /\ ev.ret.messages = SelectSeq(ev.ret.messages, IsSystem)
                             \o SelectSeq(ev.ret.messages, IsOther)
        /\ InInputOrder(SelectSeq(ev.ret.messages, IsSystem))
        /\ InInputOrder(SelectSeq(ev.ret.messages, IsOther))

C17_Witness ==
    /\ Deduplicating(ev)
    /\ ev.ret.duplicates_removed = 1
    /\ Len(ev.messages) = 4
    /\ IsSystem(ev.messages[4])
    /\ IsSystem(ev.messages[1])

(* C20 -- the cleanup pass and the calls of other threads do not disturb    *)
(* each other: the pass ends without an error, and when it assigns the      *)
(* cleaned list of a session, with every add_message returned, each message *)
(* of the session that the cleanup rules keep is in the session afterwards, *)
(* in memory and in the snapshot.                                           *)
Range(s) == {s[i] : i \in DOMAIN s}

KeptByRules(messages, max_messages) ==
    Range(CleanMessages(messages, max_messages).messages)

C20_PassDoesNotRace ==
    [][/\ ev'.op = "clear_expired_sessions" => ~ev'.raised
       /\ (ev'.op = "clear_write" /\ \A t \in Mutators : Idle(t)) =>
             \A m \in KeptByRules(sessions[ev'.user_id].messages,
                                  ev'.max_messages) :
                /\ m \in Range(sessions'[ev'.user_id].messages)
                /\ IsStamped(m) =>
                      /\ ev'.user_id \in DOMAIN snapshots'
                      /\ m \in Range(snapshots'[ev'.user_id].messages)]_vars

----------------------------------------------------------------------------
(* C22 -- the ingestion collaborator is never called while the cache lock   *)
(* is held: no thread is inside the collaborator call of get_cache while it *)
(* owns the lock.                                                           *)
C22_IngestionOutsideLock ==
    \A t \in Threads : pc[t] = "get_upload" => lock # t

(* C23 -- a get that finds a record which has an expiry time that has not   *)
(* passed renews it: the record's cache_expired_time after the get is later *)
(* than it was before.                                                      *)
C23_AutoRenewal ==
    (/\ ev.op = "get"
     /\ ev.kind = "list"
     /\ ev.hit
     /\ Truthy(ev.row.cache_expired_time)
     /\ ev.at <= ev.row.cache_expired_time) =>
        \A r \in SelectByHash(table, ev.file_hash) :
           r.cache_expired_time > ev.row.cache_expired_time

(* C24 -- after set_context, and after add_temp_knowledge has counted a hit *)
(* or a miss, the session's last_active_time is the time of the call.       *)
C24_LastActiveIsLastMutation ==
    [][(\/ Returned(ev', "set_context")
        \/ (ev'.op = "add_temp_knowledge" /\ ev'.branch \in {"hit", "miss"})) =>
          sessions'[ev'.user_id].last_active_time = now]_vars

(* C25 -- after a cleanup pass every surviving session whose message list   *)
(* is not the list it had before the pass, by removal or by reordering, has *)
(* a snapshot whose message list is the list in memory.                     *)
C25_ChangedIsPersisted ==
    [][Pass(ev') =>
        \A u \in DOMAIN sessions' :
           sessions'[u].messages # sessions[u].messages =>
              /\ u \in DOMAIN snapshots'
              /\ snapshots'[u].messages = sessions'[u].messages]_vars

----------------------------------------------------------------------------
(* Properties of the message operations of the cache.  The event of a call  *)
(* that found a live record carries the row get_cache_info read and the     *)
(* time at which it read it.                                                *)

FoundLive(e, op) == e.op = op /\ e.kind = "value" /\ e.found

PassedIn(messages_json, at) ==
    {i \in DOMAIN messages_json : HasPassed(messages_json[i][3], at)}

LiveList(messages_json, at) ==
    LET StillLive(d) == ~HasPassed(d[3], at)
    IN  SelectSeq(messages_json, StillLive)

(* C26 -- clear_expired_messages on a live record whose stored list holds k *)
(* messages with an expired_time in the past returns k and stores the list  *)
(* without them; with k = 0 it returns 0 and leaves the record as it is.    *)
C26_ClearExpiredMessages ==
    FoundLive(ev, "clear_expired_messages") =>
       LET k == Cardinality(PassedIn(ev.row.messages, ev.at))
       IN  /\ ev.ret = k
           /\ k = 0 => ev.row \in table
           /\ k > 0 => \A r \in SelectByHash(table, ev.file_hash) :
                          r.messages = LiveList(ev.row.messages, ev.at)

(* C27 -- add_message loses no update: when the record has gained messages  *)
(* between the read and the write of an add_message, the list stored by the *)
(* write still holds them, and the message of this call.                    *)
IsProperPrefix(s, w) == Len(s) < Len(w) /\ SubSeq(w, 1, Len(s)) = s

InList(m, s) == \E j \in DOMAIN s : s[j] = m

C27_NoLostUpdate ==
    [][(/\ FoundLive(ev', "add_message")
        /\ IsProperPrefix(LiveList(ev'.row.messages, ev'.at),
                          StoredMessages(table, ev'.file_hash))) =>
          /\ \A i \in DOMAIN StoredMessages(table, ev'.file_hash) :
                InList(StoredMessages(table, ev'.file_hash)[i],
                       StoredMessages(table', ev'.file_hash))
          /\ InList(ev'.new_message,
                    StoredMessages(table', ev'.file_hash))]_vars

(* C28 -- add_message on a live record changes its message list only, to    *)
(* the live messages it had followed by the new one: cache_expired_time,    *)
(* cache_tag and cache_message are as they were, no expiry stays no expiry. *)
C28_AddMessageFrame ==
    FoundLive(ev, "add_message") =>
       \A r \in SelectByHash(table, ev.file_hash) :
          /\ r.cache_expired_time = ev.row.cache_expired_time
          /\ r.cache_tag = ev.row.cache_tag
          /\ r.cache_message = ev.row.cache_message
          /\ r.messages = Append(LiveList(ev.row.messages, ev.at), ev.new_message)

----------------------------------------------------------------------------
(* C21 -- a crash during a snapshot write never leaves a partial or empty   *)
(* document: every snapshot file parses as a complete document, and after a *)
(* restart every user with a snapshot file has a session.                   *)
C21_SnapshotWriteIsAtomic ==
    /\ \A u \in DOMAIN snapshots : ~read_file(snapshots[u]).raised
    /\ ev.op = "restart" => DOMAIN snapshots \subseteq DOMAIN sessions

====
